---- MODULE Spec2Model ----
(***************************************************************************)
(* Model of the Python Paste Formatter plugin (src/src/main.ts).          *)
(*                                                                         *)
(* A document is a sequence of one-character strings, lines separated by   *)
(* "\n" (the host editor's text buffer).  Positions handed to the editor   *)
(* are records [line, ch], 0-based as in the editor API; the selection is  *)
(* kept as document offsets, as the editor keeps it.                       *)
(***************************************************************************)
EXTENDS Integers, Sequences, FiniteSets, TLC

VARIABLES
    doc,          \* the editor's text buffer
    sel,          \* the editor's selection: [from, to, head] (offsets, from <= to)
    settings,     \* this.settings: [enabled, engine, scope]
    lastPasteAt,  \* this.lastPasteAt
    now,          \* Date.now()
    tasks,        \* handler invocations suspended on (or done with) formatText
    events,       \* paste events and command invocations dispatched so far
    lastClaimedAt,\* Date.now() of the last paste the handler claimed, 0 if none (observation)
    last,         \* what the last step did (observation of the step, not program state)
    res           \* result and arguments of the last pure call (SpecLocate, SpecBlock)

vars == <<doc, sel, settings, lastPasteAt, now, tasks, events, lastClaimedAt, last, res>>

-----------------------------------------------------------------------------
(* Text helpers                                                            *)

NL == "\n"
BT == "tick"                 \* the backtick character (not writable in a TLA+ string)
Null == <<"<null>">>          \* JavaScript null (no text is equal to it)

IsSpace(c) == c \in {" ", "\t", NL}

Max(a, b) == IF a >= b THEN a ELSE b
Min(a, b) == IF a <= b THEN a ELSE b

Slice(s, a, b) == SubSeq(s, a + 1, b)      \* s.slice(a, b), 0-based offsets

\* lines.join("\n")
RECURSIVE JoinLines(_)
JoinLines(ls) ==
    IF Len(ls) = 0 THEN <<>>
    ELSE IF Len(ls) = 1 THEN ls[1]
    ELSE ls[1] \o <<NL>> \o JoinLines(Tail(ls))

\* String.prototype.trim
RECURSIVE TrimLeft(_)
TrimLeft(s) == IF s # <<>> /\ IsSpace(Head(s)) THEN TrimLeft(Tail(s)) ELSE s

RECURSIVE TrimRight(_)
TrimRight(s) ==
    IF s # <<>> /\ IsSpace(s[Len(s)]) THEN TrimRight(SubSeq(s, 1, Len(s) - 1)) ELSE s

Trim(s) == TrimRight(TrimLeft(s))

\* String.prototype.toLowerCase, on the letters the texts of the model use
UpperChars == <<"P", "Y", "T", "H", "O", "N", "J", "S">>
LowerChars == <<"p", "y", "t", "h", "o", "n", "j", "s">>
ToLowerChar(c) ==
    IF \E i \in 1..Len(UpperChars) : UpperChars[i] = c
    THEN LowerChars[CHOOSE i \in 1..Len(UpperChars) : UpperChars[i] = c]
    ELSE c
ToLowerCase(s) == [i \in 1..Len(s) |-> ToLowerChar(s[i])]

\* line.startsWith(three backticks)
StartsWithFence(line) ==
    Len(line) >= 3 /\ line[1] = BT /\ line[2] = BT /\ line[3] = BT

\* length of the longest prefix of s whose characters all satisfy the test
RECURSIVE RunOfTicks(_)
RunOfTicks(s) == IF s # <<>> /\ Head(s) = BT THEN 1 + RunOfTicks(Tail(s)) ELSE 0

RECURSIVE RunOfSpace(_)
RunOfSpace(s) == IF s # <<>> /\ IsSpace(Head(s)) THEN 1 + RunOfSpace(Tail(s)) ELSE 0

IsTagChar(c) == ~IsSpace(c) /\ c # BT /\ c # "{"

RECURSIVE RunOfTag(_)
RunOfTag(s) == IF s # <<>> /\ IsTagChar(Head(s)) THEN 1 + RunOfTag(Tail(s)) ELSE 0

-----------------------------------------------------------------------------
(* The host editor (obsidian Editor) as the plugin uses it                 *)

lineCount(d) == Cardinality({k \in 1..Len(d) : d[k] = NL}) + 1

\* offset of the first character of line i (0 <= i < lineCount)
LineStart(d, i) ==
    IF i = 0 THEN 0
    ELSE CHOOSE k \in 1..Len(d) :
            d[k] = NL /\ Cardinality({j \in 1..(k - 1) : d[j] = NL}) = i - 1

\* offset just after the last character of line i
LineEnd(d, i) == IF i + 1 >= lineCount(d) THEN Len(d) ELSE LineStart(d, i + 1) - 1

getLine(d, i) == Slice(d, LineStart(d, i), LineEnd(d, i))

\* editor.posToOffset: a position past the end is the end of the document,
\* a column past the end of its line is the end of that line
posToOffset(d, pos) ==
    IF pos.line < 0 THEN 0
    ELSE IF pos.line >= lineCount(d) THEN Len(d)
    ELSE LineStart(d, pos.line) + Min(Max(pos.ch, 0), Len(getLine(d, pos.line)))

\* editor.offsetToPos
offsetToPos(d, off) ==
    LET line == Cardinality({k \in 1..off : d[k] = NL})
    IN [line |-> line, ch |-> off - LineStart(d, line)]

\* editor.getRange(from, to)
getRange(d, from, to) == Slice(d, posToOffset(d, from), posToOffset(d, to))

\* the text after editor.replaceRange(text, from, to)
replaceRange(d, text, from, to) ==
    LET a == posToOffset(d, from)
        b == posToOffset(d, to)
    IN Slice(d, 0, a) \o text \o Slice(d, b, Len(d))

\* editor.getCursor() / getCursor('from') / getCursor('to')
getCursor(d, s, which) ==
    offsetToPos(d, IF which = "from" THEN s.from
                   ELSE IF which = "to" THEN s.to ELSE s.head)

-----------------------------------------------------------------------------
(* Fence location and block text (main.ts 147-205)                         *)

PythonTags ==
    { <<"p", "y", "t", "h", "o", "n">>, <<"p", "y">>,
      <<"p", "y", "t", "h", "o", "n", "3">>, <<"p", "y", "3">> }

\* mutant: the tag is compared as written
isPythonLangExact(lang) ==
    IF lang = Null \/ lang = <<>> THEN FALSE
    ELSE lang \in PythonTags

isPythonLang(lang) ==
    IF lang = Null \/ lang = <<>> THEN FALSE
    ELSE ToLowerCase(lang) \in PythonTags

\* fenceLine.trim().match(/^BT{3,}\s*([^\sBT{]+)?/), then m[1] ?? null
extractFenceLang(fenceLine) ==
    LET t  == Trim(fenceLine)
        nt == RunOfTicks(t)
        r1 == Slice(t, nt, Len(t))
        ns == RunOfSpace(r1)
        r2 == Slice(r1, ns, Len(r1))
        ng == RunOfTag(r2)
    IN IF nt < 3 THEN Null
       ELSE IF ng = 0 THEN Null
       ELSE Slice(r2, 0, ng)

NoFence == [inside |-> FALSE, lang |-> Null, startLine |-> -1, endLine |-> -1]

\* for (let i = from; i >= 0; i--) if (getLine(i).startsWith(FENCE)) { open = i; break; }
RECURSIVE ScanBack(_, _)
ScanBack(d, i) ==
    IF i < 0 THEN -1
    ELSE IF StartsWithFence(getLine(d, i)) THEN i
    ELSE ScanBack(d, i - 1)

\* mutant: when no delimiter line follows, the end of the buffer closes the fence
ScanFwdOrEnd(d, j) ==
    LET found == {k \in j..(lineCount(d) - 1) : StartsWithFence(getLine(d, k))}
    IN IF found = {} THEN lineCount(d) ELSE CHOOSE k \in found : \A m \in found : k <= m

\* mutant: the loop does not stop at the first delimiter line
ScanFwdNoBreak(d, j) ==
    LET found == {k \in j..(lineCount(d) - 1) : StartsWithFence(getLine(d, k))}
    IN IF found = {} THEN -1 ELSE CHOOSE k \in found : \A m \in found : m <= k

\* for (let j = from; j < total; j++) if (getLine(j).startsWith(FENCE)) { close = j; break; }
RECURSIVE ScanFwd(_, _)
ScanFwd(d, j) ==
    IF j >= lineCount(d) THEN -1
    ELSE IF StartsWithFence(getLine(d, j)) THEN j
    ELSE ScanFwd(d, j + 1)

\* mutant: the delimiter lines count as inside
insideInclusive(line, open, close) == line >= open /\ line <= close

\* const inside = pos.line > open && pos.line < close
inside(line, open, close) == line > open /\ line < close

findFenceInfo(d, pos) ==
    LET open == ScanBack(d, pos.line)
    IN IF open = -1 THEN NoFence
       ELSE LET close == ScanFwd(d, open + 1)
            IN IF close = -1 THEN NoFence
               ELSE [inside    |-> inside(pos.line, open, close),
                     lang      |-> extractFenceLang(getLine(d, open)),
                     startLine |-> open,
                     endLine   |-> close]

\* mutant: the range starts at the opening delimiter line
getBlockTextFromOpening(d, info) ==
    getRange(d, [line |-> info.startLine, ch |-> 0],
                [line |-> info.endLine, ch |-> 0])

getBlockText(d, info) ==
    getRange(d, [line |-> info.startLine + 1, ch |-> 0],
                [line |-> info.endLine, ch |-> 0])

\* mutant: the right part starts where the selection starts
mergePasteKeepsSelected(d, s, info, pasted) ==
    LET blockStart == [line |-> info.startLine + 1, ch |-> 0]
        blockEnd   == [line |-> info.endLine, ch |-> 0]
        selFrom    == getCursor(d, s, "from")
        safeFrom   == IF selFrom.line <= info.startLine THEN blockStart ELSE selFrom
        left       == getRange(d, blockStart, safeFrom)
        right      == getRange(d, safeFrom, blockEnd)
    IN left \o pasted \o right

mergePasteIntoBlock(d, s, info, pasted) ==
    LET blockStart == [line |-> info.startLine + 1, ch |-> 0]
        blockEnd   == [line |-> info.endLine, ch |-> 0]
        selFrom    == getCursor(d, s, "from")
        selTo      == getCursor(d, s, "to")
        safeFrom   == IF selFrom.line <= info.startLine THEN blockStart ELSE selFrom
        safeTo     == IF selTo.line >= info.endLine THEN blockEnd ELSE selTo
        left       == getRange(d, blockStart, safeFrom)
        right      == getRange(d, safeTo, blockEnd)
    IN left \o pasted \o right

\* mutant: the range starts at the opening delimiter line
replaceBlockFromOpening(d, info, newCode) ==
    replaceRange(d, newCode, [line |-> info.startLine, ch |-> 0],
                             [line |-> info.endLine, ch |-> 0])

replaceBlock(d, info, newCode) ==
    replaceRange(d, newCode, [line |-> info.startLine + 1, ch |-> 0],
                             [line |-> info.endLine, ch |-> 0])

-----------------------------------------------------------------------------
(* Bounds of the model                                                     *)

MaxEvents == 2        \* paste events plus command invocations in a run
MaxLines  == 5        \* lines of a document given to findFenceInfo alone
MaxBlockLines == 4    \* lines of a document given to replaceBlock alone
MaxBlockOps == 2      \* calls of replaceBlock in a run of SpecBlock
MaxChunks == 1        \* 'data' events of one subprocess
MaxMergeLines == 4    \* lines of a document given to mergePasteIntoBlock alone

-----------------------------------------------------------------------------
(* Program constants                                                       *)

DebounceMs == 250     \* now - this.lastPasteAt < 250
StartTime  == 1000    \* Date.now() when the plugin is loaded (any value >= DebounceMs)

\* milliseconds between two readings of the clock
Elapsed == { 249, 250 }

DEFAULT_SETTINGS == [enabled |-> TRUE, engine |-> "ruff", scope |-> "block"]

-----------------------------------------------------------------------------
(* Texts the environment supplies                                          *)

PyFence  == <<BT, BT, BT, "p", "y">>
JsFence  == <<BT, BT, BT, "j", "s">>
EndFence == <<BT, BT, BT>>

\* documents the editor holds when the plugin is loaded
InitDocs ==
    { JoinLines(<<JsFence, <<"a">>, EndFence>>),
      JoinLines(<<PyFence, <<"a">>, EndFence, <<"u">>>>) }

\* clipboard payloads of paste events ("" / absent is <<>>)
ClipTexts == { <<>>, <<"x">> }

\* chunks a formatter writes to its standard output / standard error
OutChunks == { <<"f", NL>> }
ErrChunks == { <<"E">> }

\* exit codes of a formatter that was spawned
ExitCodes == { 0, 1 }
\* the code of the 'close' event that follows a failed spawn (-errno)
SpawnFailCode == -2

CodeStr(code) == IF code = 0 THEN "0" ELSE IF code = 1 THEN "1" ELSE "-2"

-----------------------------------------------------------------------------
(* Promises and the formatter subprocess (main.ts 95-138)                  *)

Pending == [state |-> "pending", value |-> <<>>]

\* resolve(v) / reject(e) of a promise: only the first call settles it
resolve(p, v) == IF p.state = "pending" THEN [state |-> "resolved", value |-> v] ELSE p
reject(p, e)  == IF p.state = "pending" THEN [state |-> "rejected", value |-> e] ELSE p

SpawnErrorValue == <<"Error: spawn ENOENT">>
\* new Error(err || `Formatter exited with code ${code}`)
CloseErrorValue(err, code) ==
    IF err # <<>> THEN err ELSE <<"Formatter exited with code ", CodeStr(code)>>

\* formatText: the executable and arguments of the configured engine
formatText(st) ==
    IF st.engine = "ruff"
    THEN [cmd |-> "ruff",
          args |-> <<"format", "--stdin-filename", "pasted.py", "--line-length", "88", "-">>]
    ELSE [cmd |-> "black",
          args |-> <<"-q", "--stdin-filename", "pasted.py", "--line-length", "88", "-">>]

\* runFormatter up to its return: the child is spawned, the handlers are
\* registered, the input is written to its stdin and stdin is ended
runFormatter(call, input) ==
    [cmd     |-> call.cmd,
     args    |-> call.args,
     stdin   |-> input,
     proc    |-> "running",      \* running | errored | closed
     out     |-> <<>>,
     err     |-> <<>>,
     nout    |-> 0,
     nerr    |-> 0,
     emitted |-> <<>>,           \* what the process wrote to stdout (observation)
     code    |-> 0,
     failed  |-> FALSE,          \* the spawn failed (observation)
     calls   |-> 0,              \* calls of resolve or reject so far
     promise |-> Pending]

\* child.stdout.on('data', d => out += d.toString())
onStdoutData(c, d) == [c EXCEPT !.out = @ \o d, !.nout = @ + 1, !.emitted = @ \o d]
\* child.stderr.on('data', d => err += d.toString())
onStderrData(c, d) == [c EXCEPT !.err = @ \o d, !.nerr = @ + 1]
\* child.on('error', e => reject(e))
onError(c) ==
    [c EXCEPT !.proc = "errored", !.failed = TRUE, !.calls = @ + 1,
              !.promise = reject(@, SpawnErrorValue)]
\* mutant: an empty stdout is not replaced by the input
onCloseNoFallback(c, code) ==
    [c EXCEPT !.proc = "closed", !.code = code, !.calls = @ + 1,
              !.promise = IF code = 0
                          THEN resolve(@, c.out)
                          ELSE reject(@, CloseErrorValue(c.err, code))]

\* child.on('close', code => code === 0 ? resolve(out || input) : reject(new Error(...)))
onClose(c, code) ==
    [c EXCEPT !.proc = "closed", !.code = code, !.calls = @ + 1,
              !.promise = IF code = 0
                          THEN resolve(@, IF c.out # <<>> THEN c.out ELSE c.stdin)
                          ELSE reject(@, CloseErrorValue(c.err, code))]

-----------------------------------------------------------------------------
(* The handlers (main.ts 32-92)                                            *)

\* editor.replaceSelection(text): the text replaces the selection and the
\* cursor is left after it
replaceSelection(d, s, text) == Slice(d, 0, s.from) \o text \o Slice(d, s.to, Len(d))
selAfterReplaceSelection(s, text) ==
    LET e == s.from + Len(text) IN [from |-> e, to |-> e, head |-> e]

\* where the editor may leave an offset after the range a..b was replaced by n characters
MapOff(p, a, b, n) ==
    IF p < a THEN {p} ELSE IF p > b THEN {p - (b - a) + n} ELSE {a, a + n}

\* the selections the editor may hold after replaceBlock(info, text) on d
selAfterReplaceBlock(d, s, info, text) ==
    LET a == posToOffset(d, [line |-> info.startLine + 1, ch |-> 0])
        b == posToOffset(d, [line |-> info.endLine, ch |-> 0])
    IN { [from |-> f, to |-> t, head |-> IF s.head = s.from THEN f ELSE t] :
            <<f, t>> \in { x \in MapOff(s.from, a, b, Len(text))
                                 \X MapOff(s.to, a, b, Len(text)) : x[1] <= x[2] } }

NoCommit == [op |-> "none", text |-> <<>>]
NoTask   == [kind |-> "none"]
NoEvt    == [defaultPrevented |-> FALSE, markdownView |-> TRUE, text |-> <<>>]

\* mutant: the window is one millisecond short
debouncedShort(t, lp) == t - lp < DebounceMs - 1

\* if (now - this.lastPasteAt < 250) return;
debounced(t, lp) == t - lp < DebounceMs

\* mutant: the language of the fence is not checked
pasteEligibleAnyFence(st, evt, info) ==
    /\ st.enabled
    /\ ~evt.defaultPrevented
    /\ evt.markdownView
    /\ info.inside
    /\ evt.text # <<>>

\* the checks of the paste handler between the debounce and preventDefault
pasteEligible(st, evt, info) ==
    /\ st.enabled
    /\ ~evt.defaultPrevented
    /\ evt.markdownView
    /\ info.inside /\ isPythonLang(info.lang)
    /\ evt.text # <<>>

\* what the paste handler sends to formatText
pasteInput(st, d, s, info, text) ==
    IF st.scope = "snippet" THEN text ELSE mergePasteIntoBlock(d, s, info, text)

\* the command's check before it formats
commandEligible(info) == info.inside /\ isPythonLang(info.lang)

\* mutant: the await is missing
awaitMissing(c) == TRUE

\* await: the handler goes on once the promise of its formatText call is settled
awaitReady(c) == c.promise.state # "pending"

\* mutant: on failure the pasted text is dropped
pasteContinuationDropsOnFailure(t, p) ==
    IF p.state = "resolved"
    THEN [op |-> IF t.mode = "snippet" THEN "replaceSelection" ELSE "replaceBlock",
          text |-> p.value]
    ELSE [op |-> "none", text |-> <<>>]

\* mutant: in block mode the catch replaces the block with the error text
pasteContinuationErrorIntoBlock(t, p) ==
    IF t.mode = "snippet"
    THEN IF p.state = "resolved"
         THEN [op |-> "replaceSelection", text |-> p.value]
         ELSE [op |-> "replaceSelection", text |-> t.text]
    ELSE [op |-> "replaceBlock", text |-> p.value]

\* the paste handler after its await (try / catch around formatText)
pasteContinuation(t, p) ==
    IF t.mode = "snippet"
    THEN IF p.state = "resolved"
         THEN [op |-> "replaceSelection", text |-> p.value]
         ELSE [op |-> "replaceSelection", text |-> t.text]
    ELSE IF p.state = "resolved"
         THEN [op |-> "replaceBlock", text |-> p.value]
         ELSE [op |-> "replaceSelection", text |-> t.text]

\* mutant: the command falls back like the paste handler
commandContinuationFallback(t, p) ==
    IF p.state = "resolved"
    THEN [op |-> "replaceBlock", text |-> p.value]
    ELSE [op |-> "replaceSelection", text |-> t.child.stdin]

\* the command after its await
commandContinuation(t, p) ==
    IF p.state = "resolved"
    THEN [op |-> "replaceBlock", text |-> p.value]
    ELSE NoCommit

InFlight(ts) == Cardinality({i \in 1..Len(ts) : ts[i].child.promise.state = "pending"})

\* no handler is ready to go on: continuations run before the next event is dispatched
Quiescent == \A i \in 1..Len(tasks) : tasks[i].done \/ tasks[i].child.promise.state = "pending"

\* the observation of one handler step; steps of the environment leave Idle
\* (inflight: formatter invocations pending when the handler went on; changed:
\* the buffer was no longer the one the handler saw when it was called)
Idle ==
    [op |-> "idle", debounced |-> FALSE, prevented |-> FALSE, spawned |-> FALSE,
     commit |-> NoCommit, inflight |-> 0, changed |-> FALSE, t |-> NoTask]

Step(op) == [Idle EXCEPT !.op = op]

\* id: the number of the event the handler was called for; docAt: the buffer
\* when findFenceInfo was called (observations)
NewTask(kind, mode, info, text, input) ==
    [id |-> events + 1, docAt |-> doc,
     kind |-> kind, mode |-> mode, info |-> info, text |-> text,
     child |-> runFormatter(formatText(settings), input),
     commits |-> <<>>, logged |-> FALSE, done |-> FALSE]

\* a handler that returned and whose subprocess is closed is gone
Live(t) == ~(t.done /\ t.child.proc = "closed")
Put(ts, i, t) ==
    IF Live(t) THEN [ts EXCEPT ![i] = t]
    ELSE SubSeq(ts, 1, i - 1) \o SubSeq(ts, i + 1, Len(ts))

PasteEvents == [defaultPrevented : BOOLEAN, markdownView : BOOLEAN, text : ClipTexts]

\* workspace.on('editor-paste', ...), dt after the clock was last read: the handler
\* up to its first await, then the default paste of the host when the event was
\* not claimed
Paste(evt, dt) ==
    /\ Quiescent
    /\ events < MaxEvents
    /\ events' = events + 1
    /\ now' = now + dt
    /\ LET deb  == debounced(now', lastPasteAt)
           info == findFenceInfo(doc, getCursor(doc, sel, "head"))
           take == ~deb /\ pasteEligible(settings, evt, info)
           t    == NewTask("paste", settings.scope, info, evt.text,
                           pasteInput(settings, doc, sel, info, evt.text))
       IN /\ lastPasteAt' = IF deb THEN lastPasteAt ELSE now'
          /\ lastClaimedAt' = IF take THEN now' ELSE lastClaimedAt
          /\ IF take
             THEN /\ tasks' = Append(tasks, t)
                  /\ UNCHANGED <<doc, sel>>
                  /\ last' = [Step("paste") EXCEPT
                                 !.prevented = TRUE, !.spawned = TRUE, !.t = t]
             ELSE /\ UNCHANGED tasks
                  /\ IF ~evt.defaultPrevented /\ evt.text # <<>>
                     THEN /\ doc' = replaceSelection(doc, sel, evt.text)
                          /\ sel' = selAfterReplaceSelection(sel, evt.text)
                     ELSE UNCHANGED <<doc, sel>>
                  /\ last' = [Step("paste") EXCEPT
                                 !.debounced = deb, !.prevented = evt.defaultPrevented]
    /\ UNCHANGED <<settings, res>>

\* the command 'Format current Python code block', up to its await
Command ==
    /\ Quiescent
    /\ events < MaxEvents
    /\ events' = events + 1
    /\ LET info == findFenceInfo(doc, getCursor(doc, sel, "head"))
           t    == NewTask("command", "block", info, <<>>, getBlockText(doc, info))
       IN IF commandEligible(info)
          THEN /\ tasks' = Append(tasks, t)
               /\ last' = [Step("command") EXCEPT !.spawned = TRUE, !.t = t]
          ELSE /\ UNCHANGED tasks
               /\ last' = Step("command")
    /\ UNCHANGED <<doc, sel, settings, lastPasteAt, lastClaimedAt, now, res>>

\* a handler goes on after its await and finishes
Continue(i) ==
    /\ ~tasks[i].done
    /\ awaitReady(tasks[i].child)
    /\ LET t  == tasks[i]
           p  == t.child.promise
           c  == IF t.kind = "paste" THEN pasteContinuation(t, p)
                 ELSE commandContinuation(t, p)
           t2 == [t EXCEPT !.done = TRUE,
                           !.logged = (p.state # "resolved" /\ t.mode # "snippet"),
                           !.commits = IF c.op = "none" THEN @ ELSE Append(@, c)]
       IN /\ doc' = IF c.op = "replaceBlock" THEN replaceBlock(doc, t.info, c.text)
                    ELSE IF c.op = "replaceSelection" THEN replaceSelection(doc, sel, c.text)
                    ELSE doc
          /\ sel' \in IF c.op = "replaceBlock" THEN selAfterReplaceBlock(doc, sel, t.info, c.text)
                      ELSE IF c.op = "replaceSelection" THEN {selAfterReplaceSelection(sel, c.text)}
                      ELSE {sel}
          /\ tasks' = Put(tasks, i, t2)
          /\ last' = [Step("continue") EXCEPT
                         !.commit = c, !.t = t2,
                         !.inflight = InFlight(tasks),
                         !.changed = (doc # t.docAt)]
    /\ UNCHANGED <<settings, lastPasteAt, lastClaimedAt, now, events, res>>

ChildStep(i, c2, op) ==
    /\ tasks' = Put(tasks, i, [tasks[i] EXCEPT !.child = c2])
    /\ last' = [Step(op) EXCEPT !.t = [tasks[i] EXCEPT !.child = c2]]
    /\ UNCHANGED <<doc, sel, settings, lastPasteAt, lastClaimedAt, now, events, res>>

StdoutData(i, d) ==
    /\ Quiescent
    /\ tasks[i].child.proc = "running"
    /\ tasks[i].child.nout + tasks[i].child.nerr < MaxChunks
    /\ ChildStep(i, onStdoutData(tasks[i].child, d), "stdout")

StderrData(i, d) ==
    /\ Quiescent
    /\ tasks[i].child.proc = "running"
    /\ tasks[i].child.nout + tasks[i].child.nerr < MaxChunks
    /\ ChildStep(i, onStderrData(tasks[i].child, d), "stderr")

\* the spawn failed: 'error' is emitted, before the process wrote anything
ChildError(i) ==
    /\ Quiescent
    /\ tasks[i].child.proc = "running"
    /\ tasks[i].child.nout = 0 /\ tasks[i].child.nerr = 0
    /\ ChildStep(i, onError(tasks[i].child), "error")

\* the process exited and its streams were closed
ChildClose(i, code) ==
    /\ Quiescent
    /\ tasks[i].child.proc = "running"
    /\ ChildStep(i, onClose(tasks[i].child, code), "close")

\* 'close' after a failed spawn
ChildCloseAfterError(i) ==
    /\ Quiescent
    /\ tasks[i].child.proc = "errored"
    /\ ChildStep(i, onClose(tasks[i].child, SpawnFailCode), "close")

\* the user puts the cursor at the start of a line, or selects the whole of
\* the second line
LineStarts(d) == { LineStart(d, l) : l \in 0..(lineCount(d) - 1) }
Selections(d) ==
    { [from |-> p, to |-> p, head |-> p] : p \in LineStarts(d) }
      \cup { [from |-> LineStart(d, l), to |-> LineStart(d, l) + Len(getLine(d, l)),
              head |-> LineStart(d, l) + Len(getLine(d, l))] :
                 l \in {k \in {1} : k < lineCount(d) /\ Len(getLine(d, k)) > 0} }

Select(s) ==
    /\ Quiescent
    /\ events < MaxEvents \/ tasks # <<>>
    /\ sel # s
    /\ sel' = s
    /\ last' = Idle
    /\ UNCHANGED <<doc, settings, lastPasteAt, lastClaimedAt, now, tasks, events, res>>

\* the settings tab: onChange of a toggle or dropdown
SetEnabled(v) ==
    /\ Quiescent
    /\ events < MaxEvents
    /\ settings.enabled # v
    /\ settings' = [settings EXCEPT !.enabled = v]
    /\ last' = Idle
    /\ UNCHANGED <<doc, sel, lastPasteAt, lastClaimedAt, now, tasks, events, res>>

SetScope(v) ==
    /\ Quiescent
    /\ events < MaxEvents
    /\ settings.scope # v
    /\ settings' = [settings EXCEPT !.scope = v]
    /\ last' = Idle
    /\ UNCHANGED <<doc, sel, lastPasteAt, lastClaimedAt, now, tasks, events, res>>

NoRes == [op |-> "none"]

Init ==
    /\ doc \in InitDocs
    /\ sel = [from |-> 0, to |-> 0, head |-> 0]
    /\ settings = DEFAULT_SETTINGS
    /\ lastPasteAt = 0
    /\ lastClaimedAt = 0
    /\ now = StartTime
    /\ tasks = <<>>
    /\ events = 0
    /\ last = Idle
    /\ res = NoRes

Next ==
    \/ \E evt \in PasteEvents, dt \in Elapsed : Paste(evt, dt)
    \/ Command
    \/ \E i \in 1..Len(tasks) : Continue(i)
    \/ \E i \in 1..Len(tasks), d \in OutChunks : StdoutData(i, d)
    \/ \E i \in 1..Len(tasks), d \in ErrChunks : StderrData(i, d)
    \/ \E i \in 1..Len(tasks) : ChildError(i)
    \/ \E i \in 1..Len(tasks), code \in ExitCodes : ChildClose(i, code)
    \/ \E i \in 1..Len(tasks) : ChildCloseAfterError(i)
    \/ \E s \in Selections(doc) : Select(s)
    \/ \E v \in BOOLEAN : SetEnabled(v)
    \/ \E v \in {"block", "snippet"} : SetScope(v)

Spec == Init /\ [][Next]_vars

\* the event loop runs a continuation that is ready, and every subprocess ends:
\* it exits, or it could not be spawned ('error', then 'close')
Fairness ==
    /\ WF_vars(\E i \in 1..Len(tasks) : Continue(i))
    /\ WF_vars(\E i \in 1..Len(tasks) :
                  \/ ChildError(i)
                  \/ \E code \in ExitCodes : ChildClose(i, code)
                  \/ ChildCloseAfterError(i))

SpecLive == Spec /\ Fairness

-----------------------------------------------------------------------------
(* findFenceInfo alone, on every document of up to MaxLines lines          *)

Ticks(n) == [i \in 1..n |-> BT]

\* a delimiter line as it is written: n backticks, a gap, a tag, the rest
FenceLine(f) == Ticks(f.n) \o f.gap \o f.tag \o f.rest

FenceShapes ==
    { [n |-> 3, gap |-> <<>>,    tag |-> <<"p", "y">>, rest |-> <<>>],
      [n |-> 3, gap |-> <<>>,    tag |-> <<>>,         rest |-> <<>>],
      [n |-> 4, gap |-> <<" ">>, tag |-> <<"P", "y">>, rest |-> <<" ", "x">>],
      [n |-> 3, gap |-> <<>>,    tag |-> <<>>,         rest |-> <<"{", "r", "}">>] }

LocateLines ==
    { FenceLine(f) : f \in FenceShapes }
        \cup { <<"a">>, <<" ", " ">> \o PyFence }

DocsOf(lines, n) ==
    { JoinLines(ls) : ls \in UNION { [1..k -> lines] : k \in 1..n } }

Locate(l) ==
    /\ res' = [op |-> "locate", pos |-> [line |-> l, ch |-> 0],
               info |-> findFenceInfo(doc, [line |-> l, ch |-> 0])]
    /\ UNCHANGED <<doc, sel, settings, lastPasteAt, now, tasks, events, lastClaimedAt, last>>

InitRest ==
    /\ sel = [from |-> 0, to |-> 0, head |-> 0]
    /\ settings = DEFAULT_SETTINGS
    /\ lastPasteAt = 0
    /\ lastClaimedAt = 0
    /\ now = StartTime
    /\ tasks = <<>>
    /\ events = 0
    /\ last = Idle
    /\ res = NoRes

InitLocate == doc \in DocsOf(LocateLines, MaxLines) /\ InitRest

NextLocate == \E l \in 0..(lineCount(doc) - 1) : Locate(l)

SpecLocate == InitLocate /\ [][NextLocate]_vars

-----------------------------------------------------------------------------
(* replaceBlock alone, on every document of up to MaxBlockLines lines      *)

BlockLines == { PyFence, EndFence, <<"a">>, <<>> }
NewTexts   == { <<>>, <<"x">>, <<"x", NL>>, <<"x", NL, "y", NL>> }

\* a FenceInfo whose startLine and endLine are two delimiter lines of d
FenceInfos(d) ==
    { [inside |-> TRUE, lang |-> extractFenceLang(getLine(d, x[1])),
       startLine |-> x[1], endLine |-> x[2]] :
         x \in { y \in (0..(lineCount(d) - 1)) \X (0..(lineCount(d) - 1)) :
                    /\ y[1] < y[2]
                    /\ StartsWithFence(getLine(d, y[1]))
                    /\ StartsWithFence(getLine(d, y[2])) } }

ReplaceBlock(info, text) ==
    /\ events < MaxBlockOps
    /\ events' = events + 1
    /\ doc' = replaceBlock(doc, info, text)
    /\ res' = [op |-> "replaceBlock", before |-> doc, info |-> info, text |-> text]
    /\ UNCHANGED <<sel, settings, lastPasteAt, now, tasks, lastClaimedAt, last>>

\* replaceBlock(editor, info, getBlockText(editor, info)); the observation counts
\* the calls made in a row and keeps the buffer before the first of them
ExtractReplace(info) ==
    /\ events < MaxBlockOps
    /\ events' = events + 1
    /\ doc' = replaceBlock(doc, info, getBlockText(doc, info))
    /\ res' = [op |-> "extractReplace", info |-> info,
               n |-> IF res.op = "extractReplace" THEN res.n + 1 ELSE 1,
               first |-> IF res.op = "extractReplace" THEN res.first ELSE doc]
    /\ UNCHANGED <<sel, settings, lastPasteAt, now, tasks, lastClaimedAt, last>>

InitBlock == doc \in DocsOf(BlockLines, MaxBlockLines) /\ InitRest

NextBlock ==
    \/ \E info \in FenceInfos(doc), text \in NewTexts : ReplaceBlock(info, text)
    \/ \E info \in FenceInfos(doc) : ExtractReplace(info)

SpecBlock == InitBlock /\ [][NextBlock]_vars

-----------------------------------------------------------------------------
(* mergePasteIntoBlock alone, on every document of up to MaxMergeLines     *)
(* lines and every selection                                               *)

MergeLines == { PyFence, EndFence, <<"a", "b">>, <<"c">> }

\* every selection of the editor: from <= to, the head at one of the two
AllSelections(d) ==
    { [from |-> x[1], to |-> x[2], head |-> h] :
        x \in { y \in (0..Len(d)) \X (0..Len(d)) : y[1] <= y[2] }, h \in {"from", "to"} }

\* the user selects, then mergePasteIntoBlock(editor, info, pasted) is called
Merge(info, s, pasted) ==
    /\ res.op = "none"
    /\ LET s2 == [from |-> s.from, to |-> s.to,
                  head |-> IF s.head = "from" THEN s.from ELSE s.to]
       IN /\ sel' = s2
          /\ res' = [op |-> "merge", info |-> info, pasted |-> pasted,
                     out |-> mergePasteIntoBlock(doc, s2, info, pasted)]
    /\ UNCHANGED <<doc, settings, lastPasteAt, now, tasks, events, lastClaimedAt, last>>

InitMerge == doc \in DocsOf(MergeLines, MaxMergeLines) /\ InitRest

NextMerge ==
    \E info \in FenceInfos(doc), s \in AllSelections(doc), pasted \in ClipTexts \ {<<>>} :
        Merge(info, s, pasted)

SpecMerge == InitMerge /\ [][NextMerge]_vars

-----------------------------------------------------------------------------
(* The language check of the handlers, on every opening line of LangShapes  *)

\* tags written on an opening delimiter line (<<>>: no tag)
TagTexts ==
    { <<>>,
      <<"p", "y">>, <<"P", "y">>, <<"p", "y", "3">>, <<"P", "Y", "3">>,
      <<"p", "y", "t", "h", "o", "n">>, <<"P", "y", "t", "h", "o", "n">>,
      <<"p", "y", "t", "h", "o", "n", "3">>, <<"P", "Y", "T", "H", "O", "N", "3">>,
      <<"p", "y", "t", "h", "o">>, <<"p", "y", "x">>, <<"p", "y", "t", "h", "o", "n", "2">>,
      <<"j", "s">>, <<"3", "p", "y">> }

\* what follows the tag: nothing, a blank, more words, an attribute block
LangRests == { <<>>, <<" ">>, <<" ", "p", "y">>, <<"{", "1", "}">>, <<" ", "{", "p", "y", "}">> }

\* opening lines: backticks, optional blank, tag, rest; without a tag no word
\* may follow the backticks
LangShapes ==
    { f \in [n : {3, 4}, gap : {<<>>, <<" ">>}, tag : TagTexts, rest : LangRests] :
        f.tag = <<>> => f.rest \in { <<>>, <<" ">>, <<"{", "1", "}">>, <<" ", "{", "p", "y", "}">> } }

\* findFenceInfo at the content line, then the handlers' check
\* if (!info.inside || !isPythonLang(info.lang)) return;
CheckLang ==
    /\ res.op = "none"
    /\ LET info == findFenceInfo(doc, [line |-> 1, ch |-> 0])
       IN res' = [op |-> "lang", info |-> info, eligible |-> commandEligible(info)]
    /\ UNCHANGED <<doc, sel, settings, lastPasteAt, now, tasks, events, lastClaimedAt, last>>

InitLang ==
    /\ doc \in { JoinLines(<<FenceLine(f), <<"a">>, EndFence>>) : f \in LangShapes }
    /\ InitRest

NextLang == CheckLang

SpecLang == InitLang /\ [][NextLang]_vars

-----------------------------------------------------------------------------
(* Claims about replaceBlock and findFenceInfo                             *)

\* a delimiter line: a line that starts with three backticks
Delim(d, k) ==
    LET line == getLine(d, k)
    IN Len(line) >= 3 /\ \A j \in 1..3 : line[j] = BT

\* C3: after replaceBlock(info, newText), whatever newText is, the opening and
\* the closing delimiter line read as before, and so does every line before
\* the opening and after the closing delimiter (the lines from the closing
\* delimiter on are counted from the end of the buffer).
C3_DelimitersUntouched ==
    res.op = "replaceBlock" =>
        LET b == res.before
            i == res.info
        IN /\ \A k \in 0..i.startLine :
                 k < lineCount(doc) /\ getLine(doc, k) = getLine(b, k)
           /\ \A k \in 0..(lineCount(b) - 1 - i.endLine) :
                 /\ lineCount(doc) - 1 - k > i.startLine
                 /\ getLine(doc, lineCount(doc) - 1 - k) = getLine(b, lineCount(b) - 1 - k)

\* C9: with the cursor on a content line of a well-formed fence (delimiter line
\* o, no delimiter among the lines between, delimiter line c), findFenceInfo
\* returns inside = true, startLine = o, endLine = c and the tag written on
\* line o (null when none is written), whatever else the buffer holds.
C9_ContentLineLocated ==
    res.op = "locate" =>
        \A o \in 0..(lineCount(doc) - 1), c \in 0..(lineCount(doc) - 1) :
            ( /\ o < res.pos.line /\ res.pos.line < c
              /\ Delim(doc, o) /\ Delim(doc, c)
              /\ \A k \in (o + 1)..(c - 1) : ~Delim(doc, k) )
            => /\ res.info.inside
               /\ res.info.startLine = o
               /\ res.info.endLine = c
               /\ \A f \in FenceShapes :
                     getLine(doc, o) = FenceLine(f)
                        => res.info.lang = IF f.tag = <<>> THEN Null ELSE f.tag

\* C9 witness: the cursor is on a content line of a fence tagged Py that is
\* not the first fence of the buffer, and the fence was located.
C9_Witness ==
    /\ res.op = "locate"
    /\ res.info.inside
    /\ res.info.startLine >= 2
    /\ res.info.lang = <<"P", "y">>
    /\ \E k \in 0..(res.info.startLine - 1) : Delim(doc, k)

\* the line is outside any fence: it is no delimiter line and an even number
\* of delimiter lines precede it (every fence opened above it is closed)
OutsideAnyFence(d, l) ==
    /\ ~Delim(d, l)
    /\ Cardinality({k \in 0..(l - 1) : Delim(d, k)}) % 2 = 0

\* C10: for a cursor on a line outside any fence, findFenceInfo returns the
\* absence marker: inside = false, startLine = -1, endLine = -1.
C10_OutsideIsAbsent ==
    (res.op = "locate" /\ OutsideAnyFence(doc, res.pos.line))
        => (~res.info.inside /\ res.info.startLine = -1 /\ res.info.endLine = -1)

\* C11: with the cursor on a delimiter line (a line that starts with three
\* backticks), be it the opening or the closing line of a fence, findFenceInfo
\* returns inside = false.
C11_DelimiterLineNotInside ==
    (res.op = "locate" /\ Delim(doc, res.pos.line)) => ~res.info.inside

\* C11 witness: the cursor is on the closing delimiter line of a fence that has
\* a content line, another delimiter line follows, and inside is false.
C11_Witness ==
    /\ res.op = "locate"
    /\ Delim(doc, res.pos.line)
    /\ res.pos.line >= 2
    /\ Delim(doc, res.pos.line - 2) /\ ~Delim(doc, res.pos.line - 1)
    /\ res.pos.line + 1 < lineCount(doc) /\ Delim(doc, res.pos.line + 1)
    /\ ~res.info.inside

\* C12: when the nearest delimiter line at or before the cursor has no
\* delimiter line after it up to the end of the buffer, findFenceInfo returns
\* the absence marker.
C12_UnterminatedIsAbsent ==
    res.op = "locate" =>
        \A o \in 0..res.pos.line :
            ( /\ Delim(doc, o)
              /\ \A k \in (o + 1)..(lineCount(doc) - 1) : ~Delim(doc, k) )
            => res.info = NoFence

\* C12 witness: a closed fence, then an opening delimiter tagged py that is
\* never closed, the cursor on a line below it: the absence marker.
C12_Witness ==
    /\ res.op = "locate"
    /\ res.info = NoFence
    /\ res.pos.line >= 3
    /\ getLine(doc, res.pos.line - 1) = PyFence
    /\ ~Delim(doc, res.pos.line)
    /\ Cardinality({k \in 0..(res.pos.line - 2) : Delim(doc, k)}) = 2

\* a delimiter line as the specification reads it: the trimmed line starts
\* with three backticks
DelimTrimmed(d, k) ==
    LET line == Trim(getLine(d, k))
    IN Len(line) >= 3 /\ \A j \in 1..3 : line[j] = BT

\* C13: a delimiter line with leading whitespace is a delimiter line like any
\* other: with the cursor on a content line of a well-formed fence whose
\* opening delimiter is indented, findFenceInfo returns inside = true and the
\* indices of the two delimiter lines.
C13_IndentedFenceLocated ==
    res.op = "locate" =>
        \A o \in 0..(lineCount(doc) - 1), c \in 0..(lineCount(doc) - 1) :
            ( /\ o < res.pos.line /\ res.pos.line < c
              /\ DelimTrimmed(doc, o) /\ ~Delim(doc, o)
              /\ DelimTrimmed(doc, c)
              /\ \A k \in (o + 1)..(c - 1) : ~DelimTrimmed(doc, k) )
            => /\ res.info.inside
               /\ res.info.startLine = o
               /\ res.info.endLine = c

\* the tags that make a fence a Python fence, in every spelling TagTexts has
EligibleTexts ==
    { <<"p", "y">>, <<"P", "y">>, <<"p", "y", "3">>, <<"P", "Y", "3">>,
      <<"p", "y", "t", "h", "o", "n">>, <<"P", "y", "t", "h", "o", "n">>,
      <<"p", "y", "t", "h", "o", "n", "3">>, <<"P", "Y", "T", "H", "O", "N", "3">> }

C15_SelectionBeforeBlock ==
    ( /\ res.op = "merge"
      /\ getCursor(doc, sel, "from").line <= res.info.startLine
      /\ getCursor(doc, sel, "to").line <= res.info.startLine )
    => res.out = res.pasted \o getBlockText(doc, res.info)

\* C16: in the paste handler (the FenceInfo is the one findFenceInfo gives for
\* the head, which is on a content line of a Python fence) the merged text is
\* the block content with the part of the selection that lies in the block
\* replaced by the pasted text: a prefix of the block content, the pasted
\* text, a suffix of the block content, the two not overlapping; a selection
\* that covers the block content gives the pasted text alone; and the merge
\* leaves the buffer as it is.
C16_MergeStaysInBlock ==
    /\ [](( /\ res.op = "merge"
            /\ res.info = findFenceInfo(doc, getCursor(doc, sel, "head"))
            /\ res.info.inside
            /\ res.info.lang # Null /\ ToLowerCase(res.info.lang) \in PythonTags )
          => LET a == LineStart(doc, res.info.startLine + 1)
                 b == LineStart(doc, res.info.endLine)
                 f == Max(sel.from, a)
                 t == Min(sel.to, b)
             IN /\ a <= f /\ f <= t /\ t <= b
                /\ res.out = SubSeq(doc, a + 1, f) \o res.pasted \o SubSeq(doc, t + 1, b)
                /\ (sel.from <= a /\ sel.to >= b) => res.out = res.pasted)
    /\ [][doc' = doc]_vars

\* C16 witness: the selection starts above the opening delimiter and ends, with
\* the head, inside a content line of a Python fence; the merged text is the
\* pasted text and the rest of the block.
C16_Witness ==
    /\ res.op = "merge"
    /\ res.info = findFenceInfo(doc, getCursor(doc, sel, "head"))
    /\ res.info.inside /\ res.info.lang = <<"p", "y">>
    /\ res.info.startLine = 1
    /\ sel.from = 0 /\ sel.head = sel.to
    /\ getCursor(doc, sel, "to").ch = 1
    /\ res.out = <<"x", "b", NL>>

\* C17: replaceBlock with the text getBlockText returns for the same FenceInfo
\* leaves the whole buffer as it was, also for a block without content lines
\* and when the pair of calls is repeated.
C17_ExtractReplaceIsIdentity ==
    res.op = "extractReplace" => doc = res.first

\* C17 witness: the pair of calls was made twice in a row on a block without
\* content lines.
C17_Witness ==
    /\ res.op = "extractReplace"
    /\ res.n = 2
    /\ res.info.endLine = res.info.startLine + 1
    /\ doc = res.first

-----------------------------------------------------------------------------
(* Claims about the handlers                                               *)

\* what the default paste of the host leaves in the buffer
DefaultPaste(d, s, evt) ==
    IF ~evt.defaultPrevented /\ evt.text # <<>> THEN replaceSelection(d, s, evt.text) ELSE d

\* every condition the paste handler needs holds for the event
AllHold(evt) ==
    LET info == findFenceInfo(doc, getCursor(doc, sel, "head"))
    IN /\ settings.enabled
       /\ ~evt.defaultPrevented
       /\ evt.markdownView
       /\ info.inside
       /\ info.lang # Null /\ ToLowerCase(info.lang) \in PythonTags
       /\ evt.text # <<>>

\* the formatter invocation failed: the spawn failed or the exit code is not 0
Failed(c) == c.failed \/ (c.proc = "closed" /\ c.code # 0)

\* C1: the paste handler claims an event or starts a formatter only if the
\* feature is enabled, the event is not already prevented, the view is a
\* MarkdownView, the cursor is inside a Python fence and the clipboard holds
\* text; when one of these fails it starts nothing, claims nothing and the
\* buffer is what the default paste makes of it.
C1_InterceptOnlyIfEligible ==
    [][\A evt \in PasteEvents, dt \in Elapsed :
          Paste(evt, dt) =>
             LET claimed == last'.prevented /\ ~evt.defaultPrevented
                 started == Len(tasks') > Len(tasks)
             IN /\ (claimed \/ started) => AllHold(evt)
                /\ ~AllHold(evt) =>
                      /\ tasks' = tasks
                      /\ ~claimed
                      /\ doc' = DefaultPaste(doc, sel, evt)]_vars

\* C1 witness: a paste with the cursor inside a fence tagged js, the feature
\* enabled, was left to the host: nothing was claimed or started.
C1_Witness ==
    /\ last.op = "paste" /\ ~last.debounced /\ ~last.prevented /\ ~last.spawned
    /\ settings.enabled
    /\ tasks = <<>>
    /\ LET info == findFenceInfo(doc, getCursor(doc, sel, "head"))
       IN info.inside /\ info.lang = <<"j", "s">>
    /\ \E k \in 1..Len(doc) : doc[k] = "x"

\* C2: when the formatter of an intercepted paste fails, in block and in
\* snippet mode, the handler makes one buffer mutation: the selection is
\* replaced by the pasted text as it was; no replaceBlock, no error text.
C2_FailureInsertsRawPaste ==
    [][\A i \in 1..Len(tasks) :
          (Continue(i) /\ tasks[i].kind = "paste" /\ Failed(tasks[i].child)) =>
             /\ doc' = replaceSelection(doc, sel, tasks[i].text)
             /\ last'.commit = [op |-> "replaceSelection", text |-> tasks[i].text]
             /\ last'.t.commits = <<last'.commit>>]_vars

\* C2 witness: a block-mode paste whose formatter could not be spawned has
\* put the raw text at the selection.
C2_Witness ==
    /\ last.op = "continue"
    /\ last.t.kind = "paste" /\ last.t.mode = "block"
    /\ last.t.child.failed
    /\ last.commit = [op |-> "replaceSelection", text |-> <<"x">>]

\* C4: a paste event less than 250 ms after a paste that was processed is
\* suppressed: nothing is claimed, no formatter is started, the timestamp
\* stays, and the buffer is what the default paste makes of it.
C4_SecondWithinWindowSuppressed ==
    [][\A evt \in PasteEvents, dt \in Elapsed :
          (Paste(evt, dt) /\ lastPasteAt > 0 /\ now' - lastPasteAt < 250) =>
             /\ tasks' = tasks
             /\ last'.prevented = evt.defaultPrevented
             /\ lastPasteAt' = lastPasteAt
             /\ doc' = DefaultPaste(doc, sel, evt)]_vars

\* C4 witness: a paste was suppressed as a duplicate of a paste that was
\* claimed less than 250 ms before and whose formatter is still running.
C4_Witness ==
    /\ last.op = "paste" /\ last.debounced /\ ~last.prevented
    /\ lastPasteAt > 0 /\ lastClaimedAt = lastPasteAt
    /\ now - lastPasteAt < 250
    /\ Len(tasks) = 1

\* C5: a paste event that was not claimed starts no debounce window: a paste
\* for which every condition holds is claimed unless a claimed paste came less
\* than 250 ms before it.
C5_EligibleAfterIneligibleClaimed ==
    [][\A evt \in PasteEvents, dt \in Elapsed :
          (Paste(evt, dt) /\ AllHold(evt) /\ ~(now' - lastClaimedAt < 250)) =>
              (Len(tasks') > Len(tasks) /\ last'.prevented)]_vars

\* C6: the command starts a formatter exactly when the cursor is inside a
\* Python fence (whatever the enabled setting and the debounce window) and
\* does not touch the buffer before the formatter ends; on failure it leaves
\* buffer and selection as they are and logs; on success it makes one
\* replaceBlock of the block span with the formatter's result.
C6_CommandLeavesBufferOnFailure ==
    [][/\ Command =>
             LET info == findFenceInfo(doc, getCursor(doc, sel, "head"))
             IN /\ doc' = doc
                /\ (Len(tasks') > Len(tasks)) <=>
                      (info.inside /\ info.lang # Null
                         /\ ToLowerCase(info.lang) \in PythonTags)
       /\ \A i \in 1..Len(tasks) :
             (Continue(i) /\ tasks[i].kind = "command") =>
                IF Failed(tasks[i].child)
                THEN /\ doc' = doc /\ sel' = sel
                     /\ last'.commit = NoCommit
                     /\ last'.t.commits = <<>>
                     /\ last'.t.logged
                ELSE /\ doc' = replaceBlock(doc, tasks[i].info, tasks[i].child.promise.value)
                     /\ last'.t.commits =
                           <<[op |-> "replaceBlock", text |-> tasks[i].child.promise.value]>>]_vars

\* C6 witness: with the feature disabled, and less than 250 ms after a paste,
\* the command ran, its formatter failed and it committed nothing.
C6_Witness ==
    /\ last.op = "continue"
    /\ last.t.kind = "command"
    /\ Failed(last.t.child)
    /\ last.commit = NoCommit
    /\ ~settings.enabled
    /\ lastPasteAt = now

\* the promise a call of runFormatter must hold, given what its subprocess did
Outcome(c) ==
    IF c.proc = "running" THEN [state |-> "pending", value |-> <<>>]
    ELSE IF c.failed THEN [state |-> "rejected", value |-> SpawnErrorValue]
    ELSE IF c.code = 0
         THEN [state |-> "resolved", value |-> IF c.emitted # <<>> THEN c.emitted ELSE c.stdin]
    ELSE [state |-> "rejected",
          value |-> IF c.err # <<>> THEN c.err
                    ELSE <<"Formatter exited with code ", CodeStr(c.code)>>]

Observed == {tasks[i] : i \in 1..Len(tasks)} \cup (IF last.t.kind = "none" THEN {} ELSE {last.t})

\* C7: the promise of runFormatter is decided by the subprocess: exit 0 with
\* output gives the output, exit 0 without output gives the input, another
\* exit code rejects with stderr (or a message naming the code), a failed
\* spawn rejects with its error; and once settled the promise never changes.
C7_SettlesOnceByResult ==
    /\ [](\A t \in Observed : t.child.promise = Outcome(t.child))
    /\ [][\A i \in 1..Len(tasks) :
             ( /\ tasks[i].child.promise.state # "pending"
               /\ \/ ChildError(i)
                  \/ ChildCloseAfterError(i)
                  \/ \E code \in ExitCodes : ChildClose(i, code) )
             => last'.t.child.promise = tasks[i].child.promise]_vars

\* C7 witness: after a failed spawn 'close' followed 'error': reject was
\* called twice and the promise holds the spawn error.
C7_Witness ==
    /\ last.op = "close"
    /\ last.t.child.failed
    /\ last.t.child.calls = 2
    /\ last.t.child.promise = [state |-> "rejected", value |-> SpawnErrorValue]

\* C8 as claimed: at each commit no formatter invocation is in flight.
C8_NoCommitWhileInFlight == last.commit.op # "none" => last.inflight = 0

\* C8 as amended: the buffer changes only at a commit of the plugin or by the
\* default paste of an event it did not claim, and a handler commits only
\* after its own formatter invocation has settled.
C8_CommitAfterOwnFormatter ==
    /\ [](last.commit.op # "none" =>
             /\ last.op = "continue"
             /\ last.t.done
             /\ last.t.child.promise.state # "pending")
    /\ [][doc' # doc =>
             \/ last'.commit.op # "none"
             \/ last'.op = "paste" /\ ~last'.spawned]_vars

\* C8 witness: a handler committed while the formatter of another was in flight.
C8_Witness == last.commit.op # "none" /\ last.inflight > 0

\* C18: whatever way the formatter of a handler fails (the spawn fails, the
\* exit code is not 0), the handler catches the error, logs it and returns.
C18_FailureCaughtAndLogged ==
    (last.op = "continue" /\ Failed(last.t.child)) => (last.t.done /\ last.t.logged)

\* C19: a paste event that is not claimed makes no commit and is left to the
\* default paste; a paste event is claimed exactly when a formatter is started
\* for it; the handler of a claimed event makes no commit before it goes on
\* after its formatter and exactly one when it does: the formatter's result
\* (replaceBlock in block mode, replaceSelection in snippet mode) or, when the
\* formatter failed, the raw pasted text (replaceSelection); and, every
\* subprocess ending, it does go on.
C19_OneTerminalState ==
    /\ [][\A evt \in PasteEvents, dt \in Elapsed :
             Paste(evt, dt) =>
                /\ last'.commit = NoCommit
                /\ (last'.prevented /\ ~evt.defaultPrevented) <=> (Len(tasks') = Len(tasks) + 1)
                /\ Len(tasks') = Len(tasks) => doc' = DefaultPaste(doc, sel, evt)
                /\ Len(tasks') # Len(tasks) => doc' = doc]_vars
    /\ [](\A t \in Observed :
             t.kind = "paste" => Len(t.commits) = (IF t.done THEN 1 ELSE 0))
    /\ [][\A i \in 1..Len(tasks) :
             (Continue(i) /\ tasks[i].kind = "paste") =>
                LET c == last'.commit
                    v == tasks[i].child.promise.value
                IN /\ last'.t.commits = <<c>>
                   /\ IF Failed(tasks[i].child)
                      THEN /\ c = [op |-> "replaceSelection", text |-> tasks[i].text]
                           /\ doc' = replaceSelection(doc, sel, tasks[i].text)
                      ELSE IF tasks[i].mode = "snippet"
                      THEN /\ c = [op |-> "replaceSelection", text |-> v]
                           /\ doc' = replaceSelection(doc, sel, v)
                      ELSE /\ c = [op |-> "replaceBlock", text |-> v]
                           /\ doc' = replaceBlock(doc, tasks[i].info, v)]_vars
    /\ \A n \in 1..MaxEvents :
          (\E i \in 1..Len(tasks) :
               tasks[i].id = n /\ tasks[i].kind = "paste" /\ ~tasks[i].done)
            ~> (last.op = "continue" /\ last.t.id = n /\ Len(last.t.commits) = 1)

\* C19 witness: the second event of the run was a claimed paste in block mode
\* whose formatter exited with code 1; its handler went on and put the raw
\* text at the selection, its one commit.
C19_Witness ==
    /\ last.op = "continue"
    /\ last.t.kind = "paste" /\ last.t.id = 2 /\ last.t.mode = "block"
    /\ last.t.child.proc = "closed" /\ last.t.child.code = 1
    /\ last.t.commits = <<[op |-> "replaceSelection", text |-> <<"x">>]>>

\* C20 as claimed: when a handler commits with replaceBlock, the lines at the
\* startLine and endLine it recorded are still the delimiter lines of the fence
\* (they read as when they were recorded, and no delimiter line lies between).
C20_FenceInfoStillValid ==
    [][\A i \in 1..Len(tasks) :
          (Continue(i) /\ last'.commit.op = "replaceBlock") =>
             LET t == tasks[i]
                 o == t.info.startLine
                 c == t.info.endLine
             IN /\ c < lineCount(doc)
                /\ Delim(doc, o) /\ getLine(doc, o) = getLine(t.docAt, o)
                /\ Delim(doc, c) /\ getLine(doc, c) = getLine(t.docAt, c)
                /\ \A k \in (o + 1)..(c - 1) : ~Delim(doc, k)]_vars

\* C20 as amended: the commit replaces the text between the start of line
\* startLine + 1 and the start of line endLine, as recorded, in the buffer as
\* it is then; if the buffer is still the one the handler saw when it recorded
\* them, these lines are the delimiter lines of the fence and the opening line
\* and all lines before it stay as they are.
C20_CommitAtRecordedLines ==
    [][\A i \in 1..Len(tasks) :
          (Continue(i) /\ last'.commit.op = "replaceBlock") =>
             LET t == tasks[i]
                 o == t.info.startLine
                 c == t.info.endLine
                 a == IF o + 1 >= lineCount(doc) THEN Len(doc) ELSE LineStart(doc, o + 1)
                 b == IF c >= lineCount(doc) THEN Len(doc) ELSE LineStart(doc, c)
             IN /\ doc' = SubSeq(doc, 1, a) \o last'.commit.text \o SubSeq(doc, b + 1, Len(doc))
                /\ doc = t.docAt =>
                      /\ Delim(doc, o) /\ Delim(doc, c)
                      /\ \A k \in (o + 1)..(c - 1) : ~Delim(doc, k)
                      /\ \A k \in 0..o : getLine(doc', k) = getLine(doc, k)]_vars

\* C20 witness: the handler of the first event committed with replaceBlock
\* after the second event of the run had changed the buffer under it.
C20_Witness ==
    /\ last.op = "continue"
    /\ last.commit.op = "replaceBlock"
    /\ last.t.id = 1
    /\ events = 2
    /\ last.changed

====
